---- MODULE Spec2Model ----
(***************************************************************************)
(* One invocation of the tiktoken command-line token counter               *)
(* (tiktoken/cli.py).  The state is the command line and the standard      *)
(* input the process was started with, the locals of main(), and what the  *)
(* process has written, read and called so far.  main() is a linear        *)
(* sequence of stages; each stage is one action.                           *)
(***************************************************************************)
EXTENDS Integers, Sequences, FiniteSets, TLC

\* Longest content (in characters or bytes) of the positional text, of the
\* file named by -f and of the data waiting on standard input.
MaxLen == 2

\* An optional value: None, or Some(v).
None == << >>
Some(v) == << v >>
Get(o) == o[1]

\* The characters a text is made of, and the bytes a file or a pipe holds:
\* the same characters encoded in UTF-8, and xFF, a byte that is not UTF-8.
Chars == {"a", "CR", "LF"}
Bytes == Chars \cup {"xFF"}

SeqsUpTo(S, n) == UNION {[1..k -> S] : k \in 0..n}
Texts == SeqsUpTo(Chars, MaxLen)
Contents == SeqsUpTo(Bytes, MaxLen)

\* What the file named by -f can be when it is opened.
FileStates ==
    {[kind |-> "missing", data |-> << >>], [kind |-> "noperm", data |-> << >>]}
    \cup {[kind |-> "data", data |-> d] : d \in Contents}

\* sys.stdin: None, an interactive terminal, or a pipe / redirected file.
StdinKinds == {"none", "tty", "pipe"}

\* The values given on the command line.
TextArgs == {None} \cup {Some(t) : t \in Texts}
FileArgs == {None, Some("FILE")}
EncodingArgs == {None, Some("cl100k_base"), Some("nonexistent_encoding")}
ModelArgs == {None, Some(""), Some("gpt-4o"), Some("nonexistent_model")}

(***************************************************************************)
(* The tokenizer library the command line drives.                          *)
(***************************************************************************)

\* Registered encoding names, in registration order.
ENCODING_NAMES == <<"o200k_base", "gpt2", "p50k_base", "cl100k_base">>

list_encoding_names == ENCODING_NAMES

MODEL_TO_ENCODING == [m \in {"gpt-4o", "gpt-4"} |->
                        IF m = "gpt-4o" THEN "o200k_base" ELSE "cl100k_base"]

Range(s) == {s[i] : i \in 1..Len(s)}

\* A call's result: a returned value or a raised exception.
Return(v) == [ok |-> TRUE, val |-> v, exc |-> "", msg |-> ""]
Raise(e, m) == [ok |-> FALSE, val |-> << >>, exc |-> e, msg |-> m]

get_encoding(name) ==
    IF name \in Range(ENCODING_NAMES)
    THEN Return(<<name>>)
    ELSE Raise("ValueError", "Unknown encoding")

encoding_for_model(model) ==
    IF model \in DOMAIN MODEL_TO_ENCODING
    THEN Return(<<MODEL_TO_ENCODING[model]>>)
    ELSE Raise("KeyError", "Could not automatically map")

\* The pairs of characters an encoding's vocabulary holds as one token.
Merges(encoding) ==
    CASE encoding = "o200k_base" -> {<<"a", "a">>, <<"CR", "LF">>}
      [] encoding = "cl100k_base" -> {<<"CR", "LF">>}
      [] OTHER -> {}

\* encode: the token sequence of a text, longest vocabulary entry first.
RECURSIVE encode(_, _)
encode(text, encoding) ==
    IF text = << >> THEN << >>
    ELSE IF Len(text) >= 2 /\ <<text[1], text[2]>> \in Merges(encoding)
         THEN << <<text[1], text[2]>> >> \o encode(SubSeq(text, 3, Len(text)), encoding)
         ELSE << <<text[1]>> >> \o encode(Tail(text), encoding)

(***************************************************************************)
(* Python built-ins used by the command line.                              *)
(***************************************************************************)

\* Code points of the registered names, for str comparison.
CodePoints(name) ==
    CASE name = "cl100k_base" -> <<99, 108, 49, 48, 48, 107, 95, 98, 97, 115, 101>>
      [] name = "gpt2" -> <<103, 112, 116, 50>>
      [] name = "o200k_base" -> <<111, 50, 48, 48, 107, 95, 98, 97, 115, 101>>
      [] name = "p50k_base" -> <<112, 53, 48, 107, 95, 98, 97, 115, 101>>

\* s < t for two sequences of code points (str.__lt__).
RECURSIVE LexLess(_, _)
LexLess(s, t) ==
    IF t = << >> THEN FALSE
    ELSE IF s = << >> THEN TRUE
    ELSE IF s[1] # t[1] THEN s[1] < t[1]
    ELSE LexLess(Tail(s), Tail(t))

StrLess(a, b) == LexLess(CodePoints(a), CodePoints(b))

\* Insert a name into an ascending list.
RECURSIVE Insert(_, _)
Insert(x, s) ==
    IF s = << >> THEN <<x>>
    ELSE IF StrLess(x, s[1]) THEN <<x>> \o s
    ELSE <<s[1]>> \o Insert(x, Tail(s))

\* sorted(names)
RECURSIVE sorted(_)
sorted(names) ==
    IF names = << >> THEN << >>
    ELSE Insert(names[1], sorted(Tail(names)))

\* bytes.decode("utf-8"): fails on a byte that is not UTF-8.
utf8_decode(data) ==
    IF "xFF" \in Range(data)
    THEN Raise("UnicodeDecodeError", "invalid start byte")
    ELSE Return(data)

\* Text-mode newline translation on reading (newline=None): CR LF and a
\* lone CR both become LF.
RECURSIVE universal_newlines(_)
universal_newlines(s) ==
    IF s = << >> THEN << >>
    ELSE IF s[1] = "CR"
         THEN IF Len(s) >= 2 /\ s[2] = "LF"
              THEN <<"LF">> \o universal_newlines(SubSeq(s, 3, Len(s)))
              ELSE <<"LF">> \o universal_newlines(Tail(s))
         ELSE <<s[1]>> \o universal_newlines(Tail(s))

\* open(file, "r", encoding="utf-8") followed by f.read().
open_read(fstate) ==
    CASE fstate.kind = "missing" -> Raise("FileNotFoundError", "No such file or directory")
      [] fstate.kind = "noperm" -> Raise("PermissionError", "Permission denied")
      [] OTHER ->
            LET d == utf8_decode(fstate.data)
            IN  IF d.ok THEN Return(universal_newlines(d.val)) ELSE d

\* sys.stdin.read(): newline translation is on where the interpreter opens
\* standard input with universal newlines, off where it does not.
stdin_read(data, translate) ==
    LET d == utf8_decode(data)
    IN  IF d.ok
        THEN Return(IF translate THEN universal_newlines(d.val) ELSE d.val)
        ELSE d

\* The exception classes derived from OSError and from ValueError.
IsOSError(exc) == exc \in {"OSError", "FileNotFoundError", "PermissionError"}
IsValueError(exc) == exc \in {"ValueError", "UnicodeDecodeError"}
IsKeyError(exc) == exc = "KeyError"

(***************************************************************************)
(* Lines written to the output and the error stream.                       *)
(***************************************************************************)
Line(kind, detail) == [kind |-> kind, detail |-> detail]
CountLine(n) == Line("count", n)
HeaderLine == Line("text", "Available encodings:")
NameLine(name) == Line("name", name)
VersionLine == Line("version", "tiktoken")
HelpText == Line("help", "usage")
UsageError == Line("usage error", "not allowed with argument")
FileErrorLine(msg) == Line("Error reading file:", msg)
ErrorLine(msg) == Line("Error:", msg)
Traceback(exc) == Line("Traceback", exc)

(***************************************************************************)
(* tiktoken/cli.py                                                         *)
(***************************************************************************)

count_tokens(text, encoding) == Len(encode(text, encoding))

\* What read_input returns or raises, and the sources it opened or read.
Selected(content, opened) ==
    [ok |-> TRUE, content |-> Some(content), provided |-> TRUE,
     exc |-> "", msg |-> "", opened |-> opened]
NotSelected ==
    [ok |-> TRUE, content |-> None, provided |-> FALSE,
     exc |-> "", msg |-> "", opened |-> {}]
Raised(r, opened) ==
    [ok |-> FALSE, content |-> None, provided |-> FALSE,
     exc |-> r.exc, msg |-> r.msg, opened |-> opened]

\* read_input with the file looked at before the inline text.
read_input_file_first(text, file, stdin, env) ==
    IF file # None
    THEN LET r == open_read(env.fstate)
         IN  IF r.ok THEN Selected(r.val, {"file"}) ELSE Raised(r, {"file"})
    ELSE IF text # None
    THEN Selected(Get(text), {})
    ELSE IF stdin # "none" /\ stdin # "tty"
    THEN LET r == stdin_read(env.data, env.translate)
         IN  IF r.ok THEN Selected(r.val, {"stdin"}) ELSE Raised(r, {"stdin"})
    ELSE NotSelected

\* read_input with an empty content taken for no input.
read_input_empty_is_absent(text, file, stdin, env) ==
    LET r == IF text # None
             THEN Selected(Get(text), {})
             ELSE IF file # None
             THEN LET f == open_read(env.fstate)
                  IN  IF f.ok THEN Selected(f.val, {"file"}) ELSE Raised(f, {"file"})
             ELSE IF stdin # "none" /\ stdin # "tty"
             THEN LET f == stdin_read(env.data, env.translate)
                  IN  IF f.ok THEN Selected(f.val, {"stdin"}) ELSE Raised(f, {"stdin"})
             ELSE NotSelected
    IN  IF r.ok /\ r.provided /\ Get(r.content) = << >>
        THEN [NotSelected EXCEPT !.opened = r.opened]
        ELSE r

\* read_input(text, file, stdin); env is what the file system and the pipe
\* hold at the moment they are read.
read_input(text, file, stdin, env) ==
    IF text # None
    THEN Selected(Get(text), {})
    ELSE IF file # None
    THEN LET r == open_read(env.fstate)
         IN  IF r.ok THEN Selected(r.val, {"file"}) ELSE Raised(r, {"file"})
    ELSE IF stdin # "none" /\ stdin # "tty"
    THEN LET r == stdin_read(env.data, env.translate)
         IN  IF r.ok THEN Selected(r.val, {"stdin"}) ELSE Raised(r, {"stdin"})
    ELSE NotSelected

\* The namespace parse_args returns.
Namespace(argv) ==
    [text |-> argv.text,
     file |-> argv.file,
     encoding |-> IF argv.encoding = None THEN "o200k_base" ELSE Get(argv.encoding),
     model |-> argv.model,
     list_encodings |-> argv.list_encodings]

\* parse_args without the mutually exclusive group.
parse_args_no_group(argv, versionFirst) ==
    IF argv.version
    THEN [kind |-> "version", args |-> None]
    ELSE [kind |-> "args", args |-> Some(Namespace(argv))]

\* parser.parse_args(): options are taken left to right; the version action
\* exits where it stands, the mutually exclusive group fails at the second
\* of -e / -m.  versionFirst: -v stands before that second option.
parse_args(argv, versionFirst) ==
    IF argv.version /\ versionFirst
    THEN [kind |-> "version", args |-> None]
    ELSE IF argv.encoding # None /\ argv.model # None
    THEN [kind |-> "error", args |-> None]
    ELSE IF argv.version
    THEN [kind |-> "version", args |-> None]
    ELSE [kind |-> "args", args |-> Some(Namespace(argv))]

\* The stage that follows parsing when the listing is not looked at first.
AfterParseNoListing(a) == "read"

\* The stage that follows parsing: "if args.list_encodings" comes first.
AfterParse(a) == IF a.list_encodings THEN "list" ELSE "read"

\* The listing printed in registration order.
ListingUnsorted == <<HeaderLine>> \o
    [i \in 1..Len(list_encoding_names) |-> NameLine(list_encoding_names[i])]

\* The lines --list-encodings prints.
Listing ==
    LET names == sorted(list_encoding_names)
    IN  <<HeaderLine>> \o [i \in 1..Len(names) |-> NameLine(names[i])]

\* "except OSError" around read_input.
ReadCaught(exc) == IsOSError(exc)

\* Truth value of an optional string ("if args.model").
Truthy(o) == o # None /\ Get(o) # ""

\* The resolver main calls, its argument and its result.
Resolve(a) ==
    IF Truthy(a.model)
    THEN [fn |-> "encoding_for_model", arg |-> Get(a.model),
          result |-> encoding_for_model(Get(a.model))]
    ELSE [fn |-> "get_encoding", arg |-> a.encoding,
          result |-> get_encoding(a.encoding)]

\* An except clause that forgets KeyError.
ResolveCaughtValueErrorOnly(exc) == IsValueError(exc)

\* "except (KeyError, ValueError)" around the resolution.
ResolveCaught(exc) == IsKeyError(exc) \/ IsValueError(exc)

(***************************************************************************)
(* State                                                                   *)
(***************************************************************************)
VARIABLES
    argv,            \* the command line
    stdin,           \* what sys.stdin is
    pc,              \* the stage main() is at
    args,            \* the parsed namespace, once parse_args has returned
    input_text,      \* main's input_text
    input_provided,  \* main's input_provided
    enc,             \* main's enc
    disk,            \* the file named by -f as found when it was opened
    pipe,            \* the bytes read from standard input
    calls,           \* the calls made to the tokenizer library, in order
    stdout,          \* lines written to the output stream
    stderr,          \* lines written to the error stream
    returncode       \* the process's exit code, once it has exited

vars == <<argv, stdin, pc, args, input_text, input_provided, enc, disk, pipe,
          calls, stdout, stderr, returncode>>

Init ==
    /\ argv \in [text : TextArgs, file : FileArgs, encoding : EncodingArgs,
                 model : ModelArgs, list_encodings : BOOLEAN, version : BOOLEAN]
    /\ stdin \in StdinKinds
    /\ pc = "start"
    /\ args = None
    /\ input_text = None
    /\ input_provided = FALSE
    /\ enc = None
    /\ disk = None
    /\ pipe = None
    /\ calls = << >>
    /\ stdout = << >>
    /\ stderr = << >>
    /\ returncode = None

Exit(code) == pc' = "done" /\ returncode' = Some(code)

\* args = parser.parse_args()
ParseArgs ==
    /\ pc = "start"
    /\ \E versionFirst \in BOOLEAN :
         LET p == parse_args(argv, versionFirst)
         IN  CASE p.kind = "version" ->
                    /\ stdout' = Append(stdout, VersionLine)
                    /\ Exit(0)
                    /\ UNCHANGED <<args, stderr>>
               [] p.kind = "error" ->
                    /\ stderr' = Append(stderr, UsageError)
                    /\ Exit(2)
                    /\ UNCHANGED <<args, stdout>>
               [] OTHER ->
                    /\ args' = p.args
                    /\ pc' = AfterParse(Get(p.args))
                    /\ UNCHANGED <<stdout, stderr, returncode>>
    /\ UNCHANGED <<argv, stdin, input_text, input_provided, enc, disk, pipe, calls>>

\* if args.list_encodings: print the listing; return 0
ListEncodings ==
    /\ pc = "list"
    /\ calls' = Append(calls, [fn |-> "list_encoding_names", arg |-> ""])
    /\ stdout' = stdout \o Listing
    /\ Exit(0)
    /\ UNCHANGED <<argv, stdin, args, input_text, input_provided, enc, disk,
                   pipe, stderr>>

\* input_text, input_provided = read_input(...), inside try / except OSError.
\* The file named by -f (when -f is given) and the data on the pipe (when
\* standard input is one) are whatever the environment holds at that moment.
ReadInput ==
    /\ pc = "read"
    /\ \E fstate \in (IF Get(args).file = None
                       THEN {[kind |-> "missing", data |-> << >>]}
                       ELSE FileStates),
          data \in (IF stdin = "pipe" THEN Contents ELSE {<< >>}),
          translate \in (IF stdin = "pipe" THEN BOOLEAN ELSE {FALSE}) :
         LET a == Get(args)
             r == read_input(a.text, a.file, stdin,
                             [fstate |-> fstate, data |-> data,
                              translate |-> translate])
         IN  /\ disk' = IF "file" \in r.opened THEN Some(fstate) ELSE None
             /\ pipe' = IF "stdin" \in r.opened THEN Some(data) ELSE None
             /\ IF r.ok
                THEN /\ input_text' = r.content
                     /\ input_provided' = r.provided
                     /\ pc' = "input"
                     /\ UNCHANGED <<stderr, returncode>>
                ELSE /\ stderr' = Append(stderr,
                                    IF ReadCaught(r.exc)
                                    THEN FileErrorLine(r.msg)
                                    ELSE Traceback(r.exc))
                     /\ Exit(1)
                     /\ UNCHANGED <<input_text, input_provided>>
    /\ UNCHANGED <<argv, stdin, args, enc, calls, stdout>>

\* if not input_provided: parser.print_help(); return 1
NoInput ==
    /\ pc = "input"
    /\ ~input_provided
    /\ stdout' = Append(stdout, HelpText)
    /\ Exit(1)
    /\ UNCHANGED <<argv, stdin, args, input_text, input_provided, enc, disk,
                   pipe, calls, stderr>>

\* enc = encoding_for_model(args.model) or get_encoding(args.encoding),
\* inside try / except (KeyError, ValueError)
GetEncoding ==
    /\ pc = "input"
    /\ input_provided
    /\ LET r == Resolve(Get(args))
       IN  /\ calls' = Append(calls, [fn |-> r.fn, arg |-> r.arg])
           /\ IF r.result.ok
              THEN /\ enc' = r.result.val
                   /\ pc' = "resolved"
                   /\ UNCHANGED <<stderr, returncode>>
              ELSE /\ stderr' = Append(stderr,
                                  IF ResolveCaught(r.result.exc)
                                  THEN ErrorLine(r.result.msg)
                                  ELSE Traceback(r.result.exc))
                   /\ Exit(1)
                   /\ UNCHANGED enc
    /\ UNCHANGED <<argv, stdin, args, input_text, input_provided, disk, pipe,
                   stdout>>

\* token_count = count_tokens(input_text, enc); print(token_count); return 0
CountTokens ==
    /\ pc = "resolved"
    /\ calls' = Append(calls, [fn |-> "encode", arg |-> Get(input_text)])
    /\ stdout' = Append(stdout, CountLine(count_tokens(Get(input_text), Get(enc))))
    /\ Exit(0)
    /\ UNCHANGED <<argv, stdin, args, input_text, input_provided, enc, disk,
                   pipe, stderr>>

Next ==
    \/ ParseArgs
    \/ ListEncodings
    \/ ReadInput
    \/ NoInput
    \/ GetEncoding
    \/ CountTokens

Spec == Init /\ [][Next]_vars

(***************************************************************************)
(* Properties                                                              *)
(***************************************************************************)

Kinds(lines) == {lines[i].kind : i \in 1..Len(lines)}
Fns == {calls[i].fn : i \in 1..Len(calls)}

\* parse_args has returned and main has gone past read_input.
HasRead == args # None /\ pc \in {"input", "resolved", "done"} /\ ~argv.list_encodings

\* read_input raised (main then reports and exits before any resolution).
ReadFailed == HasRead /\ pc = "done" /\ calls = << >> /\ stderr # << >>

\* The source the priority rule designates for this invocation.
ExpectedSource ==
    IF argv.text # None THEN "text"
    ELSE IF argv.file # None THEN "file"
    ELSE IF stdin = "pipe" THEN "stdin"
    ELSE "none"

\* The selected source supplied the empty string.
EmptySelected ==
    \/ ExpectedSource = "text" /\ argv.text = Some(<< >>)
    \/ ExpectedSource = "file" /\ disk = Some([kind |-> "data", data |-> << >>])
    \/ ExpectedSource = "stdin" /\ pipe = Some(<< >>)

\* C1: read_input selects exactly one source by strict priority (inline
\* text, then the file, then standard input when it is present and not a
\* terminal, else no input), and a lower-priority source is never opened
\* or read when a higher-priority one is present.
C1_StrictPriority ==
    HasRead =>
        /\ (disk # None) <=> (ExpectedSource = "file")
        /\ (pipe # None) <=> (ExpectedSource = "stdin")
        /\ ExpectedSource = "text" =>
              input_provided /\ input_text = argv.text
        /\ (ExpectedSource = "file" /\ ~ReadFailed) =>
              /\ input_provided /\ input_text # None
              /\ universal_newlines(Get(input_text)) = universal_newlines(Get(disk).data)
        /\ (ExpectedSource = "stdin" /\ ~ReadFailed) =>
              /\ input_provided /\ input_text # None
              /\ universal_newlines(Get(input_text)) = universal_newlines(Get(pipe))
        /\ ExpectedSource = "none" =>
              ~input_provided /\ input_text = None /\ ~ReadFailed

\* C1 witness: text, file and piped standard input are all present; the
\* text was returned and neither the file nor the pipe was touched.
C1_Witness ==
    /\ HasRead
    /\ argv.text # None /\ argv.file # None /\ stdin = "pipe"
    /\ input_provided /\ input_text = argv.text
    /\ disk = None /\ pipe = None

C3_NullStdinIsNoInput ==
    (/\ pc = "done" /\ args # None /\ ~argv.list_encodings
     /\ argv.text = None /\ argv.file = None
     /\ argv.encoding = None /\ argv.model = None
     /\ stdin = "pipe" /\ pipe = Some(<< >>)) =>
        /\ returncode = Some(1)
        /\ "help" \in Kinds(stdout) \cup Kinds(stderr)
        /\ "count" \notin Kinds(stdout)

\* C4: when -m is given (any string, the empty string included) the
\* encoding is resolved by encoding_for_model and never by get_encoding;
\* get_encoding is used exactly when no -m was given.
C4_ModelGivenUsesMapping ==
    \A i \in 1..Len(calls) :
        /\ calls[i].fn = "get_encoding" => argv.model = None
        /\ calls[i].fn = "encoding_for_model" =>
              argv.model # None /\ calls[i].arg = Get(argv.model)

\* C5: with both -e and -m on the command line (whatever text, -f and
\* --list-encodings are) parsing fails: the exit code is neither 0 nor 1,
\* and nothing was read, resolved, listed or counted.
C5_MutuallyExclusive ==
    (argv.encoding # None /\ argv.model # None /\ ~argv.version /\ pc # "start") =>
        /\ pc = "done"
        /\ returncode # None /\ Get(returncode) \notin {0, 1}
        /\ args = None
        /\ disk = None /\ pipe = None
        /\ calls = << >>
        /\ stdout = << >>

\* C5 witness: -e, -m, a text, -f and --list-encodings together; exit 2.
C5_Witness ==
    /\ argv.encoding # None /\ argv.model # None /\ ~argv.version
    /\ argv.text # None /\ argv.file # None /\ argv.list_encodings
    /\ pc = "done" /\ returncode = Some(2)

\* C6: every failure to obtain the contents of the selected -f file
\* (missing, unreadable, not UTF-8) is reported as "Error reading file:"
\* on the error stream with exit code 1, nothing resolved or counted.
C6_FileFailureReported ==
    (/\ HasRead /\ pc = "done" /\ ExpectedSource = "file" /\ disk # None
     /\ \/ Get(disk).kind \in {"missing", "noperm"}
        \/ "xFF" \in Range(Get(disk).data)) =>
        /\ Len(stderr) = 1 /\ stderr[1].kind = "Error reading file:"
        /\ returncode = Some(1)
        /\ calls = << >>
        /\ stdout = << >>

\* C7: when input was provided and the resolution fails (unknown encoding
\* or unmappable model), one line prefixed "Error:" goes to the error
\* stream, the exit code is 1, encode is not called, no count is printed,
\* and the message tells the two kinds apart.
C7_ResolutionError ==
    (pc = "done" /\ input_provided /\ enc = None) =>
        /\ Len(stderr) = 1 /\ stderr[1].kind = "Error:"
        /\ returncode = Some(1)
        /\ stdout = << >>
        /\ "encode" \notin Fns
        /\ Len(calls) = 1
        /\ calls[1].fn = "encoding_for_model" =>
              stderr[1].detail = "Could not automatically map"
        /\ calls[1].fn = "get_encoding" =>
              stderr[1].detail = "Unknown encoding"

\* C7 witness: -m names a model that maps to no encoding.
C7_Witness ==
    /\ pc = "done" /\ input_provided
    /\ argv.model = Some("nonexistent_model")
    /\ Len(stderr) = 1 /\ stderr[1].kind = "Error:"
    /\ stderr[1].detail = "Could not automatically map"
    /\ returncode = Some(1)

\* The names on the lines after the header.
ListedNames == [i \in 1..(Len(stdout) - 1) |-> stdout[i + 1].detail]

\* C8: once parsing has succeeded with --list-encodings, the program
\* prints "Available encodings:" and every registered name in
\* lexicographic order, one per line, and exits 0, whatever text, -f, -e
\* and -m are, without reading, resolving or counting.
C8_ListShortCircuit ==
    (args # None /\ argv.list_encodings) =>
        /\ pc \in {"list", "done"}
        /\ disk = None /\ pipe = None
        /\ Fns \subseteq {"list_encoding_names"}
        /\ pc = "done" =>
              /\ returncode = Some(0)
              /\ stderr = << >>
              /\ Len(stdout) = Len(ENCODING_NAMES) + 1
              /\ stdout[1] = HeaderLine
              /\ \A i \in 2..Len(stdout) : stdout[i].kind = "name"
              /\ Range(ListedNames) = Range(ENCODING_NAMES)
              /\ ListedNames = <<"cl100k_base", "gpt2", "o200k_base", "p50k_base">>

\* C8 witness: the listing was printed although -f and an unknown
\* encoding name were given.
C8_Witness ==
    /\ pc = "done" /\ argv.list_encodings
    /\ argv.file # None /\ argv.encoding = Some("nonexistent_encoding")
    /\ Len(stdout) = 5 /\ returncode = Some(0)

\* C9: an invocation that ends with a non-zero exit code has written
\* nothing to the output stream; the output stream holds text only in the
\* exit-0 outcomes (count, listing, version).
C9_StreamSeparation ==
    pc = "done" =>
        /\ returncode # Some(0) => stdout = << >>
        /\ stdout # << >> =>
              /\ returncode = Some(0)
              /\ Kinds(stdout) \subseteq {"count", "text", "name", "version"}

\* The content the selected source supplied, as text.
Supplied ==
    IF ExpectedSource = "text" THEN Get(argv.text)
    ELSE IF ExpectedSource = "file" THEN Get(disk).data
    ELSE Get(pipe)

\* C10: for any content c and any resolvable encoding, whichever of the
\* three sources supplies c, the text given to encode is c unchanged, the
\* one printed value is the length of encode(c), and the exit code is 0.
C10_SameContentSameOutcome ==
    (HasRead /\ pc = "done" /\ enc # None) =>
        /\ calls[Len(calls)].fn = "encode"
        /\ calls[Len(calls)].arg = Supplied
        /\ Len(stdout) = 1 /\ stdout[1].kind = "count"
        /\ stdout[1].detail = Len(encode(Supplied, Get(enc)))
        /\ stdout[1].detail >= 0
        /\ returncode = Some(0)

====
